---- MODULE Spec2Model ----
(***************************************************************************)
(* Model of the `cut` crate (src/08_cut): the range-specification parser, *)
(* the lazy range index iterator (src/08_cut/src/ranges.rs) and the byte, *)
(* character and field extractors (src/08_cut/src/lib.rs).                 *)
(*                                                                         *)
(* Seven specifications share the module:                                  *)
(*   Spec         the iterator RangeIter driven call by call;              *)
(*   SpecLive     Spec with the caller going on calling next();            *)
(*   SpecExtract  the extractors applied to a line or a record;            *)
(*   SpecParse    parse_range / parse_ranges applied to a text;            *)
(*   SpecFields   extract_fields applied to a line;                        *)
(*   SpecRun      main: get_args, then run over the files and lines;       *)
(*   SpecRunLive  SpecRun with run's loops making progress.                *)
(***************************************************************************)
EXTENDS Integers, Sequences, FiniteSets, TLC

VARIABLES
    ranges,     \* RangeIter.ranges / the Positions of the Config
    index,      \* RangeIter.index: [ext, int]
    yielded,    \* the positions next() has returned so far, in order
    nones,      \* how many calls of next() have returned None
    line,       \* the &str handed to an extractor: its UTF-8 bytes
    record,     \* the StringRecord handed to extract_fields_internal
    op,         \* which function has been applied ("none" before any)
    extracted,  \* what the extractor returned
    text,       \* the &str handed to the parser: its characters
    parsed,     \* what the parser returned
    flags,      \* the command line: the range text of each of --bytes,
                \* --chars, --fields that was supplied
    mode,       \* Config.extracted: which ExtractedRanges variant it is
    delimeter,  \* Config.delimeter: the char, as its code point
    pc,         \* where the program is: get_args, run, process_file or ended
    files,      \* run: how many paths of Config.files are still to be opened
    opened,     \* run: how many files open() has opened
    reader,     \* process_file: the reader of the open file, "good" or "failing"
    lines,      \* process_file: the lines read so far, in order
    iters,      \* the state each line's RangeIter was created in, in order
    stdout,     \* the lines println! has written, in order
    stderr      \* the messages eprintln! has written, in order

vars == <<ranges, index, yielded, nones, line, record, op, extracted, text, parsed,
          flags, mode, delimeter, pc, files, opened, reader, lines, iters,
          stdout, stderr>>

iterVars == <<ranges, index, yielded, nones>>
extractVars == <<line, record, op, extracted>>
parseVars == <<text, parsed>>
configVars == <<flags, mode, delimeter>>
runVars == <<pc, files, opened, reader, lines, iters, stdout, stderr>>

----------------------------------------------------------------------------
(* Bounds of the model. *)

\* The largest value of the index type (usize::MAX in the source).
UsizeMax == 12
\* Range endpoints are drawn from 0..MaxPos and UsizeMax.
MaxPos == 2
\* The longest range list.
MaxRanges == 2
\* Calls of next() made after it has returned None.
MaxNones == 2

----------------------------------------------------------------------------
(* Option<T>: None is the empty sequence, Some(v) the one-element one. *)

None == <<>>
Some(v) == <<v>>
IsSome(o) == Len(o) = 1
Unwrap(o) == o[1]

\* usize::checked_add / usize::checked_sub / usize::checked_mul
checked_add(value, d) == IF value + d > UsizeMax THEN None ELSE Some(value + d)
checked_sub(value, d) == IF value - d < 0 THEN None ELSE Some(value - d)
checked_mul(value, d) == IF value * d > UsizeMax THEN None ELSE Some(value * d)

(* Result<T, E>, and the third way a call can end: a panic. *)
Ok(v) == [tag |-> "Ok", val |-> v]
Err(e) == [tag |-> "Err", val |-> e]
Panicked == [tag |-> "Panic", val |-> <<>>]
\* no call has returned yet
NotParsed == [tag |-> "None", val |-> <<>>]

\* start..=end
RangeInclusive(s, e) == [start |-> s, end |-> e]

\* <[T]>::get on a zero-based slice held as a 1-based sequence
SliceGet(slice, i) == IF i < Len(slice) THEN Some(slice[i + 1]) ELSE None

----------------------------------------------------------------------------
(* src/08_cut/src/ranges.rs *)

\* RangeIter::new: the index a fresh iterator starts from
RangeIter_new == [ext |-> 0, int |-> None]

\* A slip in the end test: the range is left when the NEXT value is the end.
RECURSIVE RangeIter_next_EarlyEnd(_, _)
RangeIter_next_EarlyEnd(rs, idx) ==
    LET got == SliceGet(rs, idx.ext) IN
    IF got = None THEN [item |-> None, index |-> idx]
    ELSE LET range == Unwrap(got) IN
         IF idx.int = None
         THEN RangeIter_next_EarlyEnd(rs, [idx EXCEPT !.int = Some(range.start)])
         ELSE LET value == Unwrap(idx.int)
                  next == IF range.start <= range.end
                          THEN checked_add(value, 1)
                          ELSE checked_sub(value, 1)
              IN [item  |-> Some(value),
                  index |-> IF value = range.end \/ next = None \/ next = Some(range.end)
                            THEN [ext |-> idx.ext + 1, int |-> None]
                            ELSE [ext |-> idx.ext, int |-> next]]

\* A slip in the range change: int is carried over instead of reset to None.
RECURSIVE RangeIter_next_NoReset(_, _)
RangeIter_next_NoReset(rs, idx) ==
    LET got == SliceGet(rs, idx.ext) IN
    IF got = None THEN [item |-> None, index |-> idx]
    ELSE LET range == Unwrap(got) IN
         IF idx.int = None
         THEN RangeIter_next_NoReset(rs, [idx EXCEPT !.int = Some(range.start)])
         ELSE LET value == Unwrap(idx.int)
                  next == IF range.start <= range.end
                          THEN checked_add(value, 1)
                          ELSE checked_sub(value, 1)
              IN [item  |-> Some(value),
                  index |-> IF value = range.end \/ next = None
                            THEN [ext |-> idx.ext + 1, int |-> idx.int]
                            ELSE [ext |-> idx.ext, int |-> next]]

\* A slip in the step: int moves by two.
RECURSIVE RangeIter_next_StepTwo(_, _)
RangeIter_next_StepTwo(rs, idx) ==
    LET got == SliceGet(rs, idx.ext) IN
    IF got = None THEN [item |-> None, index |-> idx]
    ELSE LET range == Unwrap(got) IN
         IF idx.int = None
         THEN RangeIter_next_StepTwo(rs, [idx EXCEPT !.int = Some(range.start)])
         ELSE LET value == Unwrap(idx.int)
                  next == IF range.start <= range.end
                          THEN checked_add(value, 2)
                          ELSE checked_sub(value, 2)
              IN [item  |-> Some(value),
                  index |-> IF value = range.end \/ next = None
                            THEN [ext |-> idx.ext + 1, int |-> None]
                            ELSE [ext |-> idx.ext, int |-> next]]

\* A slip in the range change: the range after the finished one is skipped.
RECURSIVE RangeIter_next_SkipRange(_, _)
RangeIter_next_SkipRange(rs, idx) ==
    LET got == SliceGet(rs, idx.ext) IN
    IF got = None THEN [item |-> None, index |-> idx]
    ELSE LET range == Unwrap(got) IN
         IF idx.int = None
         THEN RangeIter_next_SkipRange(rs, [idx EXCEPT !.int = Some(range.start)])
         ELSE LET value == Unwrap(idx.int)
                  next == IF range.start <= range.end
                          THEN checked_add(value, 1)
                          ELSE checked_sub(value, 1)
              IN [item  |-> Some(value),
                  index |-> IF value = range.end \/ next = None
                            THEN [ext |-> idx.ext + 2, int |-> None]
                            ELSE [ext |-> idx.ext, int |-> next]]

\* A slip in the end test: only the overflow of the step ends a range.
RECURSIVE RangeIter_next_OverflowOnly(_, _)
RangeIter_next_OverflowOnly(rs, idx) ==
    LET got == SliceGet(rs, idx.ext) IN
    IF got = None THEN [item |-> None, index |-> idx]
    ELSE LET range == Unwrap(got) IN
         IF idx.int = None
         THEN RangeIter_next_OverflowOnly(rs, [idx EXCEPT !.int = Some(range.start)])
         ELSE LET value == Unwrap(idx.int)
                  next == IF range.start <= range.end
                          THEN checked_add(value, 1)
                          ELSE checked_sub(value, 1)
              IN [item  |-> Some(value),
                  index |-> IF next = None
                            THEN [ext |-> idx.ext + 1, int |-> None]
                            ELSE [ext |-> idx.ext, int |-> next]]

\* A slip in the direction: every range is walked upwards from its
\* smaller endpoint.
RECURSIVE RangeIter_next_Ascending(_, _)
RangeIter_next_Ascending(rs, idx) ==
    LET got == SliceGet(rs, idx.ext) IN
    IF got = None THEN [item |-> None, index |-> idx]
    ELSE LET range == Unwrap(got)
             low == IF range.start <= range.end THEN range.start ELSE range.end
             high == IF range.start <= range.end THEN range.end ELSE range.start
         IN
         IF idx.int = None
         THEN RangeIter_next_Ascending(rs, [idx EXCEPT !.int = Some(low)])
         ELSE LET value == Unwrap(idx.int)
                  next == checked_add(value, 1)
              IN [item  |-> Some(value),
                  index |-> IF value = high \/ next = None
                            THEN [ext |-> idx.ext + 1, int |-> None]
                            ELSE [ext |-> idx.ext, int |-> next]]

\* A slip at the end of the list: the iterator starts over after its None.
RECURSIVE RangeIter_next_Restart(_, _)
RangeIter_next_Restart(rs, idx) ==
    LET got == SliceGet(rs, idx.ext) IN
    IF got = None THEN [item |-> None, index |-> [ext |-> 0, int |-> None]]
    ELSE LET range == Unwrap(got) IN
         IF idx.int = None
         THEN RangeIter_next_Restart(rs, [idx EXCEPT !.int = Some(range.start)])
         ELSE LET value == Unwrap(idx.int)
                  next == IF range.start <= range.end
                          THEN checked_add(value, 1)
                          ELSE checked_sub(value, 1)
              IN [item  |-> Some(value),
                  index |-> IF value = range.end \/ next = None
                            THEN [ext |-> idx.ext + 1, int |-> None]
                            ELSE [ext |-> idx.ext, int |-> next]]

\* RangeIter::next: one call, on the iterator state (rs, idx).  The result
\* is the returned Option<usize> and the index the call leaves behind.
RECURSIVE RangeIter_next(_, _)
RangeIter_next(rs, idx) ==
    LET got == SliceGet(rs, idx.ext) IN
    IF got = None THEN [item |-> None, index |-> idx]
    ELSE LET range == Unwrap(got) IN
         IF idx.int = None
         THEN \* Init the internal index, then self.next()
              RangeIter_next(rs, [idx EXCEPT !.int = Some(range.start)])
         ELSE LET value == Unwrap(idx.int)
                  next == IF range.start <= range.end
                          THEN checked_add(value, 1)
                          ELSE checked_sub(value, 1)
              IN [item  |-> Some(value),
                  index |-> IF value = range.end \/ next = None
                            THEN [ext |-> idx.ext + 1, int |-> None]
                            ELSE [ext |-> idx.ext, int |-> next]]

\* Iterator::collect on a RangeIter in state idx: every position it yields
\* until the first None.
RECURSIVE Drain(_, _)
Drain(rs, idx) ==
    LET r == RangeIter_next(rs, idx) IN
    IF r.item = None THEN <<>>
    ELSE <<Unwrap(r.item)>> \o Drain(rs, r.index)

\* ranges_iter(ranges), consumed to its end
ranges_iter(rs) == Drain(rs, RangeIter_new)

----------------------------------------------------------------------------
(* The inputs of the iterator. *)

Endpoints == (0..MaxPos) \cup {UsizeMax}
RangeSpecs == {RangeInclusive(s, e) : s \in Endpoints, e \in Endpoints}
RangeLists == UNION {[1..n -> RangeSpecs] : n \in 0..MaxRanges}

----------------------------------------------------------------------------
(* Spec: a RangeIter over a range list, driven one call of next() at a time *)

IdleExtract ==
    /\ line = <<>>
    /\ record = <<>>
    /\ op = "none"
    /\ extracted = None

IdleParse ==
    /\ text = <<>>
    /\ parsed = NotParsed

\* the default of --delimeter is the tab
IdleConfig ==
    /\ flags = <<>>
    /\ mode = "none"
    /\ delimeter = 9

IdleRun ==
    /\ pc = "none"
    /\ files = 0
    /\ opened = 0
    /\ reader = "none"
    /\ lines = <<>>
    /\ iters = <<>>
    /\ stdout = <<>>
    /\ stderr = <<>>

Init ==
    /\ ranges \in RangeLists
    /\ index = RangeIter_new
    /\ yielded = <<>>
    /\ nones = 0
    /\ IdleExtract
    /\ IdleParse
    /\ IdleConfig
    /\ IdleRun

\* One call of RangeIter::next by the consumer of the iterator.
CallNext ==
    /\ nones < MaxNones
    /\ LET r == RangeIter_next(ranges, index) IN
         /\ index' = r.index
         /\ yielded' = IF r.item = None THEN yielded ELSE Append(yielded, Unwrap(r.item))
         /\ nones' = IF r.item = None THEN nones + 1 ELSE nones
    /\ UNCHANGED <<ranges, extractVars, parseVars, configVars, runVars>>

Next == CallNext

Spec == Init /\ [][Next]_vars

----------------------------------------------------------------------------
(* Reference definitions used to state the claims about the iterator: the  *)
(* expansion of a range and of a range list as plain sequences.            *)

Abs(x) == IF x < 0 THEN -x ELSE x

RangeSize(r) == Abs(r.start - r.end) + 1

\* start, start+1, ..., end   or   start, start-1, ..., end
ExpandRange(r) ==
    [i \in 1..RangeSize(r) |->
        IF r.start <= r.end THEN r.start + (i - 1) ELSE r.start - (i - 1)]

RECURSIVE ExpandAll(_)
ExpandAll(rs) ==
    IF rs = <<>> THEN <<>>
    ELSE ExpandAll(SubSeq(rs, 1, Len(rs) - 1)) \o ExpandRange(rs[Len(rs)])

IsPrefix(s, t) == Len(s) <= Len(t) /\ SubSeq(t, 1, Len(s)) = s

Exhausted == nones > 0

----------------------------------------------------------------------------
(* C1: over a one-element range list (a, b) the iterator yields exactly    *)
(* |a - b| + 1 positions and then ends: a alone when a = b, a, a+1, ..., b *)
(* when a < b, and a, a-1, ..., b when a > b, nothing repeated or skipped. *)
C1_SingleRangeYield ==
    Len(ranges) = 1 =>
        LET a == ranges[1].start
            b == ranges[1].end
            n == Abs(a - b) + 1
        IN /\ Len(yielded) <= n
           /\ \A i \in 1..Len(yielded) :
                  yielded[i] = IF a <= b THEN a + (i - 1) ELSE a - (i - 1)
           /\ \A i, j \in 1..Len(yielded) : i # j => yielded[i] # yielded[j]
           /\ Exhausted => Len(yielded) = n /\ yielded[n] = b
           /\ Len(yielded) = n => RangeIter_next(ranges, index).item = None

\* A descending range has been walked to its end and next() has returned None.
C1_Witness ==
    /\ Len(ranges) = 1
    /\ ranges[1] = RangeInclusive(2, 0)
    /\ Exhausted
    /\ yielded = <<2, 1, 0>>

(* C2: over any range list the yielded positions are the concatenation, in *)
(* list order, of the full expansion of each range in its own direction;   *)
(* positions of overlapping or repeated ranges appear again; the ranges    *)
(* before index.ext have been yielded in full before the next one starts.  *)
C2_Concatenation ==
    LET full == ExpandAll(ranges)
        done == ExpandAll(SubSeq(ranges, 1, index.ext))
    IN /\ index.ext \in 0..Len(ranges)
       /\ IsPrefix(yielded, full)
       /\ IsPrefix(done, yielded)
       /\ index.ext < Len(ranges) =>
              /\ Len(yielded) - Len(done) < RangeSize(ranges[index.ext + 1])
              /\ (index.int = None <=> yielded = done)
       /\ index.ext = Len(ranges) => yielded = full
       /\ Exhausted => yielded = full

\* An ascending range followed by an overlapping descending one, both walked.
C2_Witness ==
    /\ ranges = <<RangeInclusive(0, 2), RangeInclusive(2, 1)>>
    /\ Exhausted
    /\ yielded = <<0, 1, 2, 2, 1>>

----------------------------------------------------------------------------
(* Strings.  A &str is held as its UTF-8 bytes; a char is its code point.  *)
(* The lines of the model hold characters below U+0800, whose encodings    *)
(* are one or two bytes long.                                              *)

\* U+FFFD REPLACEMENT CHARACTER
ReplacementChar == 65533

IsAscii(b) == b < 128
IsLead2(b) == b \in 194..223
IsCont(b) == b \in 128..191

\* char::encode_utf8 for a code point below U+0800
EncodeChar(c) == IF c < 128 THEN <<c>> ELSE <<192 + (c \div 64), 128 + (c % 64)>>

\* the bytes of the String made of the characters cs
RECURSIVE Utf8Encode(_)
Utf8Encode(cs) ==
    IF cs = <<>> THEN <<>> ELSE EncodeChar(Head(cs)) \o Utf8Encode(Tail(cs))

\* str::chars on the bytes of a &str (valid UTF-8 by construction)
RECURSIVE str_chars(_)
str_chars(bytes) ==
    IF bytes = <<>> THEN <<>>
    ELSE IF IsAscii(bytes[1])
         THEN <<bytes[1]>> \o str_chars(Tail(bytes))
         ELSE <<(bytes[1] - 192) * 64 + (bytes[2] - 128)>>
                  \o str_chars(SubSeq(bytes, 3, Len(bytes)))

\* String::from_utf8_lossy: a well-formed sequence decodes to its character,
\* any other byte (a lead byte without its continuation, a stray
\* continuation byte) to one U+FFFD.
RECURSIVE from_utf8_lossy(_)
from_utf8_lossy(bytes) ==
    IF bytes = <<>> THEN <<>>
    ELSE IF IsAscii(bytes[1])
         THEN <<bytes[1]>> \o from_utf8_lossy(Tail(bytes))
         ELSE IF IsLead2(bytes[1]) /\ Len(bytes) >= 2 /\ IsCont(bytes[2])
              THEN <<(bytes[1] - 192) * 64 + (bytes[2] - 128)>>
                       \o from_utf8_lossy(SubSeq(bytes, 3, Len(bytes)))
              ELSE <<ReplacementChar>> \o from_utf8_lossy(Tail(bytes))

----------------------------------------------------------------------------
(* src/08_cut/src/lib.rs: the extractors *)

\* positions.filter_map(|i| slice.get(i)).collect()
RECURSIVE FilterMapGet(_, _)
FilterMapGet(positions, slice) ==
    IF positions = <<>> THEN <<>>
    ELSE LET got == SliceGet(slice, Head(positions)) IN
         (IF got = None THEN <<>> ELSE <<Unwrap(got)>>)
             \o FilterMapGet(Tail(positions), slice)

\* A slip: the line is indexed by byte offset, as extract_bytes does.
extract_chars_ByteOffsets(l, rs) ==
    from_utf8_lossy(FilterMapGet(ranges_iter(rs), l))

\* extract_chars: line.chars().nth(i) for every yielded i
extract_chars(l, rs) == FilterMapGet(ranges_iter(rs), str_chars(l))

\* A slip: the line is cut at character positions, so no character is split.
extract_bytes_CharPositions(l, rs) ==
    FilterMapGet(ranges_iter(rs), str_chars(l))

\* extract_bytes: line.as_bytes().get(i) for every yielded i, then
\* String::from_utf8_lossy
extract_bytes(l, rs) == from_utf8_lossy(FilterMapGet(ranges_iter(rs), l))

\* A slip: a position past the last field gives an empty field.
extract_fields_internal_Placeholder(rec, rs) ==
    LET positions == ranges_iter(rs) IN
    [i \in 1..Len(positions) |->
        IF positions[i] < Len(rec) THEN rec[positions[i] + 1] ELSE ""]

\* extract_fields_internal: record.get(i) for every yielded i
extract_fields_internal(rec, rs) == FilterMapGet(ranges_iter(rs), rec)

----------------------------------------------------------------------------
(* The inputs of the extractors. *)

\* The longest line, in characters, and the longest record, in fields.
MaxChars == 2
MaxFields == 2

\* 'a' and U+00E1 (two bytes in UTF-8), as in the crate's unit tests
LineChars == {97, 225}
CharSeqs == UNION {[1..n -> LineChars] : n \in 0..MaxChars}
Lines == {Utf8Encode(cs) : cs \in CharSeqs}

FieldValues == {"Captain", "Sham"}
Records == UNION {[1..n -> FieldValues] : n \in 0..MaxFields}

\* The range lists handed to the extractors: positions 0..MaxPos reach past
\* the end of every line of at most MaxChars characters.
ExtractRangeSpecs == {RangeInclusive(s, e) : s \in 0..MaxPos, e \in 0..MaxPos}
ExtractRangeLists == UNION {[1..n -> ExtractRangeSpecs] : n \in 0..MaxRanges}

----------------------------------------------------------------------------
(* SpecExtract: one extractor applied to a line (or a record) and a range  *)
(* list.                                                                   *)

IdleIter ==
    /\ index = RangeIter_new
    /\ yielded = <<>>
    /\ nones = 0

InitExtract ==
    /\ ranges \in ExtractRangeLists
    /\ IdleIter
    /\ IdleExtract
    /\ IdleParse
    /\ IdleConfig
    /\ IdleRun

ExtractChars ==
    /\ op = "none"
    /\ \E l \in Lines :
         /\ line' = l
         /\ extracted' = extract_chars(l, ranges)
    /\ op' = "chars"
    /\ UNCHANGED <<iterVars, record, parseVars, configVars, runVars>>

ExtractBytes ==
    /\ op = "none"
    /\ \E l \in Lines :
         /\ line' = l
         /\ extracted' = extract_bytes(l, ranges)
    /\ op' = "bytes"
    /\ UNCHANGED <<iterVars, record, parseVars, configVars, runVars>>

ExtractFieldsInternal ==
    /\ op = "none"
    /\ \E rec \in Records :
         /\ record' = rec
         /\ extracted' = extract_fields_internal(rec, ranges)
    /\ op' = "fields_internal"
    /\ UNCHANGED <<iterVars, line, parseVars, configVars, runVars>>

NextExtract == ExtractChars \/ ExtractBytes \/ ExtractFieldsInternal

SpecExtract == InitExtract /\ [][NextExtract]_vars

----------------------------------------------------------------------------
(* Reference definitions used to state the claims about the extractors.    *)

\* the positions of ps that index a sequence of n elements, in order
InBounds(ps, n) == SelectSeq(ps, LAMBDA p : p < n)

\* seq[p] (zero-based) for every position p of ps below Len(seq), in order
Pick(ps, seq) ==
    LET inb == InBounds(ps, Len(seq)) IN [i \in 1..Len(inb) |-> seq[inb[i] + 1]]

\* the characters the line is made of
CharsOf(l) == CHOOSE cs \in CharSeqs : Utf8Encode(cs) = l

Contains(seq, x) == \E i \in 1..Len(seq) : seq[i] = x

\* the byte buffer cuts a two-byte character: a lead byte without its
\* continuation byte, or a continuation byte without its lead byte
SplitsChar(buf) ==
    \E i \in 1..Len(buf) :
        \/ IsLead2(buf[i]) /\ (i = Len(buf) \/ ~IsCont(buf[i + 1]))
        \/ IsCont(buf[i]) /\ (i = 1 \/ ~IsLead2(buf[i - 1]))

----------------------------------------------------------------------------
(* C3: extract_chars returns the characters line[p], by character position *)
(* and not by byte offset, for every yielded position p below the number   *)
(* of characters of the line, in traversal order and with repeats kept;    *)
(* positions at or past the character count give nothing, so an empty line *)
(* gives the empty string.                                                 *)
C3_ExtractChars ==
    op = "chars" =>
        /\ extracted = Pick(ExpandAll(ranges), CharsOf(line))
        /\ line = <<>> => extracted = <<>>

\* "áa" cut by 2-1 and then 2-3: a two-byte character, a descending range,
\* a repeated position and a position past the end of the line.
C3_Witness ==
    /\ op = "chars"
    /\ line = <<195, 161, 97>>
    /\ ranges = <<RangeInclusive(1, 0), RangeInclusive(1, 2)>>
    /\ extracted = <<97, 225, 97>>

(* C4: extract_bytes collects the bytes of the line at every yielded       *)
(* position below its byte length, in traversal order, and returns the     *)
(* lossy UTF-8 decoding of that buffer: a buffer that cuts a two-byte      *)
(* character decodes to a string holding U+FFFD (and the call returns),    *)
(* any other buffer to the string whose bytes it is.  "Cuts" is read off   *)
(* the buffer: it holds a lead byte without its continuation byte or a     *)
(* continuation byte without its lead byte.                                *)
C4_ExtractBytes ==
    op = "bytes" =>
        LET buf == Pick(ExpandAll(ranges), line) IN
        /\ extracted = from_utf8_lossy(buf)
        /\ SplitsChar(buf) <=> Contains(extracted, ReplacementChar)
        /\ ~SplitsChar(buf) => Utf8Encode(extracted) = buf
        /\ buf = <<195>> => extracted = <<ReplacementChar>>

\* only the first byte of the two-byte character is selected
C4_Witness ==
    /\ op = "bytes"
    /\ line = <<195, 161, 97>>
    /\ ranges = <<RangeInclusive(0, 0)>>
    /\ extracted = <<ReplacementChar>>

(* C5: extract_fields_internal returns, for a record of n fields, the      *)
(* fields record[p] for every yielded position p < n, in traversal order   *)
(* with repeats kept; a position p >= n is skipped: it gives no field, no  *)
(* placeholder and no error.                                               *)
C5_ExtractFieldsInternal ==
    op = "fields_internal" =>
        LET ps == ExpandAll(ranges) IN
        /\ extracted = Pick(ps, record)
        /\ Len(extracted) = Cardinality({i \in 1..Len(ps) : ps[i] < Len(record)})
        /\ \A i \in 1..Len(extracted) : Contains(record, extracted[i])

\* fields 2-1 and then 3 of a two-field record: the third is skipped
C5_Witness ==
    /\ op = "fields_internal"
    /\ record = <<"Captain", "Sham">>
    /\ ranges = <<RangeInclusive(1, 0), RangeInclusive(2, 2)>>
    /\ extracted = <<"Sham", "Captain">>

----------------------------------------------------------------------------
(* src/08_cut/src/lib.rs: the parser.  A &str handed to the parser is held *)
(* as the sequence of its characters.                                      *)

IsDigit(c) == c \in {"0", "1", "2", "3", "4", "5", "6", "7", "8", "9"}

\* char::to_digit(10) of a decimal digit
DigitValue(c) ==
    CASE c = "0" -> 0 [] c = "1" -> 1 [] c = "2" -> 2 [] c = "3" -> 3
      [] c = "4" -> 4 [] c = "5" -> 5 [] c = "6" -> 6 [] c = "7" -> 7
      [] c = "8" -> 8 [] c = "9" -> 9

IsWhitespace(c) == c = " "

\* str::split(sep): the pieces between the occurrences of sep, empty ones
\* included; a text without sep is one piece.
RECURSIVE str_split(_, _)
str_split(s, sep) ==
    IF \A i \in 1..Len(s) : s[i] # sep THEN <<s>>
    ELSE LET i == CHOOSE k \in 1..Len(s) :
                      s[k] = sep /\ \A j \in 1..(k - 1) : s[j] # sep
         IN <<SubSeq(s, 1, i - 1)>> \o str_split(SubSeq(s, i + 1, Len(s)), sep)

\* A slip: only the leading whitespace is removed (str::trim_start).
RECURSIVE str_trim_StartOnly(_)
str_trim_StartOnly(s) ==
    IF s = <<>> THEN s
    ELSE IF IsWhitespace(s[1]) THEN str_trim_StartOnly(Tail(s))
    ELSE s

\* str::trim: leading and trailing whitespace removed
RECURSIVE str_trim(_)
str_trim(s) ==
    IF s = <<>> THEN s
    ELSE IF IsWhitespace(s[1]) THEN str_trim(Tail(s))
    ELSE IF IsWhitespace(s[Len(s)]) THEN str_trim(SubSeq(s, 1, Len(s) - 1))
    ELSE s

\* the digit loop of usize::from_str_radix(src, 10): per character, first
\* the digit test, then the overflow tests of result * 10 and of + digit
RECURSIVE run_checked_loop(_, _)
run_checked_loop(digits, result) ==
    IF digits = <<>> THEN Ok(result)
    ELSE LET c == Head(digits)
             mul == checked_mul(result, 10)
         IN IF ~IsDigit(c) THEN Err("InvalidDigit")
            ELSE IF mul = None THEN Err("PosOverflow")
            ELSE LET sum == checked_add(Unwrap(mul), DigitValue(c)) IN
                 IF sum = None THEN Err("PosOverflow")
                 ELSE run_checked_loop(Tail(digits), Unwrap(sum))

\* A slip: a leading '+' is not accepted.
usize_from_str_NoPlus(src) ==
    IF src = <<>> THEN Err("Empty")
    ELSE run_checked_loop(src, 0)

\* <usize as FromStr>::from_str
usize_from_str(src) ==
    IF src = <<>> THEN Err("Empty")
    ELSE IF src = <<"+">> \/ src = <<"-">> THEN Err("InvalidDigit")
    ELSE run_checked_loop(IF src[1] = "+" THEN Tail(src) ELSE src, 0)

\* A slip: the part is parsed as a plain usize, zero included.
NonZeroUsize_from_str_AllowZero(src) == usize_from_str(src)

\* <NonZeroUsize as FromStr>::from_str (str::parse)
NonZeroUsize_from_str(src) ==
    LET r == usize_from_str(src) IN
    IF r.tag = "Ok" /\ r.val = 0 THEN Err("Zero") ELSE r

\* Iterator::collect into a Result<Vec<_>, _>: the values when every item
\* is Ok, else the first item that is not.
RECURSIVE collect_results(_)
collect_results(items) ==
    IF items = <<>> THEN Ok(<<>>)
    ELSE IF Head(items).tag # "Ok" THEN Head(items)
    ELSE LET rest == collect_results(Tail(items)) IN
         IF rest.tag # "Ok" THEN rest ELSE Ok(<<Head(items).val>> \o rest.val)

\* usize::from(v) - 1 .. = usize::from(w) - 1 (the closure construct).  An
\* underflowing subtraction panics in a build with overflow checks and
\* wraps in one without.
construct(start, end, overflow_checks) ==
    IF start >= 1 /\ end >= 1 THEN Ok(RangeInclusive(start - 1, end - 1))
    ELSE IF overflow_checks THEN Panicked
    ELSE Ok(RangeInclusive((start + UsizeMax) % (UsizeMax + 1),
                           (end + UsizeMax) % (UsizeMax + 1)))

\* A slip: the number of parts is looked at before the parts are parsed.
parse_range_CountFirst(range, overflow_checks) ==
    LET pieces == str_split(range, "-")
        result == collect_results(
                      [i \in 1..Len(pieces) |-> NonZeroUsize_from_str(pieces[i])])
    IN IF Len(pieces) > 2
       THEN Err([token |-> range, kind |-> "WrongParts", count |-> Len(pieces)])
       ELSE IF result.tag = "Err"
       THEN Err([token |-> range, kind |-> result.val])
       ELSE IF Len(pieces) = 1
       THEN construct(result.val[1], result.val[1], overflow_checks)
       ELSE construct(result.val[1], result.val[2], overflow_checks)

\* A slip: the endpoints are put in increasing order.
parse_range_Normalised(range, overflow_checks) ==
    LET pieces == str_split(range, "-")
        result == collect_results(
                      [i \in 1..Len(pieces) |-> NonZeroUsize_from_str(pieces[i])])
    IN IF result.tag = "Err"
       THEN Err([token |-> range, kind |-> result.val])
       ELSE LET parts == result.val IN
            IF Len(parts) = 1 THEN construct(parts[1], parts[1], overflow_checks)
            ELSE IF Len(parts) = 2
            THEN IF parts[1] <= parts[2]
                 THEN construct(parts[1], parts[2], overflow_checks)
                 ELSE construct(parts[2], parts[1], overflow_checks)
            ELSE Err([token |-> range, kind |-> "WrongParts", count |-> Len(parts)])

\* A slip: the error names the part that failed, not the token.
parse_range_PartInError(range, overflow_checks) ==
    LET pieces == str_split(range, "-")
        results == [i \in 1..Len(pieces) |-> NonZeroUsize_from_str(pieces[i])]
        result == collect_results(results)
    IN IF result.tag = "Err"
       THEN LET bad == CHOOSE i \in 1..Len(pieces) :
                           /\ results[i].tag = "Err"
                           /\ \A j \in 1..(i - 1) : results[j].tag = "Ok"
            IN Err([token |-> pieces[bad], kind |-> result.val])
       ELSE LET parts == result.val IN
            IF Len(parts) = 1 THEN construct(parts[1], parts[1], overflow_checks)
            ELSE IF Len(parts) = 2 THEN construct(parts[1], parts[2], overflow_checks)
            ELSE Err([token |-> range, kind |-> "WrongParts", count |-> Len(parts)])

\* A slip: the error of the last failing part is the one reported.
parse_range_LastPartError(range, overflow_checks) ==
    LET pieces == str_split(range, "-")
        results == [i \in 1..Len(pieces) |-> NonZeroUsize_from_str(pieces[i])]
        result == collect_results(results)
        bad == {i \in 1..Len(pieces) : results[i].tag = "Err"}
    IN IF result.tag = "Err"
       THEN Err([token |-> range,
                 kind |-> results[CHOOSE i \in bad : \A j \in bad : j <= i].val])
       ELSE LET parts == result.val IN
            IF Len(parts) = 1 THEN construct(parts[1], parts[1], overflow_checks)
            ELSE IF Len(parts) = 2 THEN construct(parts[1], parts[2], overflow_checks)
            ELSE Err([token |-> range, kind |-> "WrongParts", count |-> Len(parts)])

\* parse_range: one token to one zero-based inclusive range
parse_range(range, overflow_checks) ==
    LET pieces == str_split(range, "-")
        result == collect_results(
                      [i \in 1..Len(pieces) |-> NonZeroUsize_from_str(pieces[i])])
    IN IF result.tag = "Err"
       THEN Err([token |-> range, kind |-> result.val])
       ELSE LET parts == result.val IN
            IF Len(parts) = 1 THEN construct(parts[1], parts[1], overflow_checks)
            ELSE IF Len(parts) = 2 THEN construct(parts[1], parts[2], overflow_checks)
            ELSE Err([token |-> range, kind |-> "WrongParts", count |-> Len(parts)])

\* A slip: empty pieces of the specification are dropped before parsing.
parse_ranges_SkipEmpty(rs, overflow_checks) ==
    LET pieces == SelectSeq(str_split(rs, ","), LAMBDA x : str_trim(x) # <<>>) IN
    collect_results(
        [i \in 1..Len(pieces) |-> parse_range(str_trim(pieces[i]), overflow_checks)])

\* A slip: every token is parsed and the last error is the one returned.
parse_ranges_LastError(rs, overflow_checks) ==
    LET pieces == str_split(rs, ",")
        results == [i \in 1..Len(pieces) |->
                       parse_range(str_trim(pieces[i]), overflow_checks)]
        bad == {i \in 1..Len(pieces) : results[i].tag # "Ok"}
    IN IF bad = {} THEN collect_results(results)
       ELSE results[CHOOSE i \in bad : \A j \in bad : j <= i]

\* A slip: a range equal to an earlier one of the list is dropped.
parse_ranges_Dedup(rs, overflow_checks) ==
    LET pieces == str_split(rs, ",")
        result == collect_results(
                      [i \in 1..Len(pieces) |->
                          parse_range(str_trim(pieces[i]), overflow_checks)])
    IN IF result.tag # "Ok" THEN result
       ELSE LET keep == {i \in 1..Len(result.val) :
                            \A j \in 1..(i - 1) : result.val[j] # result.val[i]}
                nth(k) == CHOOSE i \in keep :
                              Cardinality({j \in keep : j < i}) = k - 1
            IN Ok([k \in 1..Cardinality(keep) |-> result.val[nth(k)]])

\* parse_ranges: the comma-separated specification to a range list
parse_ranges(rs, overflow_checks) ==
    LET pieces == str_split(rs, ",") IN
    collect_results(
        [i \in 1..Len(pieces) |-> parse_range(str_trim(pieces[i]), overflow_checks)])

----------------------------------------------------------------------------
(* The inputs of the parser. *)

\* The longest specification text, in characters.
MaxTextLen == 5

Alphabet == {"0", "1", "+", "-", "a", ",", " "}
Texts == UNION {[1..n -> Alphabet] : n \in 0..MaxTextLen}

\* what parse_ranges hands to parse_range: a trimmed piece without a comma
IsToken(t) == str_trim(t) = t /\ \A i \in 1..Len(t) : t[i] # ","

----------------------------------------------------------------------------
(* SpecParse: the parser applied to a text.                                *)

InitParse ==
    /\ text \in Texts
    /\ parsed = NotParsed
    /\ ranges = <<>>
    /\ IdleIter
    /\ IdleExtract
    /\ IdleConfig
    /\ IdleRun

ParseRange ==
    /\ op = "none"
    /\ IsToken(text)
    /\ \E overflow_checks \in BOOLEAN :
         parsed' = parse_range(text, overflow_checks)
    /\ op' = "parse_range"
    /\ UNCHANGED <<iterVars, line, record, extracted, text, configVars, runVars>>

ParseRanges ==
    /\ op = "none"
    /\ \E overflow_checks \in BOOLEAN :
         parsed' = parse_ranges(text, overflow_checks)
    /\ op' = "parse_ranges"
    /\ UNCHANGED <<iterVars, line, record, extracted, text, configVars, runVars>>

NextParse == ParseRange \/ ParseRanges

SpecParse == InitParse /\ [][NextParse]_vars

----------------------------------------------------------------------------
(* Reference definitions used to state the claims about the parser: the    *)
(* grammar  TOKEN := NUMBER | NUMBER '-' NUMBER,  NUMBER := '+'? DIGIT+,   *)
(* read off the text by position.                                          *)

\* the pieces of t between the occurrences of sep, as spans <<i, j>> of t
\* (j = i - 1 for an empty piece)
Spans(t, sep) ==
    {sp \in (1..(Len(t) + 1)) \X (0..Len(t)) :
        /\ sp[2] >= sp[1] - 1
        /\ \A k \in sp[1]..sp[2] : t[k] # sep
        /\ sp[1] = 1 \/ t[sp[1] - 1] = sep
        /\ sp[2] = Len(t) \/ t[sp[2] + 1] = sep}

Piece(t, sp) == SubSeq(t, sp[1], sp[2])

\* DIGIT+
IsNumeral(s) == Len(s) >= 1 /\ \A i \in 1..Len(s) : IsDigit(s[i])

\* the number a numeral denotes (no width)
RECURSIVE NumeralValue(_)
NumeralValue(s) ==
    IF s = <<>> THEN 0
    ELSE 10 * NumeralValue(SubSeq(s, 1, Len(s) - 1)) + DigitValue(s[Len(s)])

Unsigned(p) == IF p # <<>> /\ p[1] = "+" THEN Tail(p) ELSE p

\* '+'? DIGIT+ and its value
IsNumber(p) == IsNumeral(Unsigned(p))
NumberValue(p) == NumeralValue(Unsigned(p))

\* a part that makes an endpoint: a number from 1 to usize::MAX
IsValidPart(p) == IsNumber(p) /\ NumberValue(p) \in 1..UsizeMax

\* a numeric part whose value is zero
IsZeroPart(p) == IsNumber(p) /\ NumberValue(p) = 0

\* a non-empty part that is not a number: a lone sign, or a character that
\* is not a digit
IsNonNumericPart(p) == p # <<>> /\ ~IsNumber(p)

\* the digits of a non-numeric part before its first offending character,
\* read as a number, fit in usize
DigitsBeforeOffenderFit(p) ==
    LET u == Unsigned(p) IN
    \/ u = <<>>
    \/ \E k \in 1..Len(u) :
           /\ ~IsDigit(u[k])
           /\ \A j \in 1..(k - 1) : IsDigit(u[j])
           /\ NumeralValue(SubSeq(u, 1, k - 1)) <= UsizeMax

\* every part of token t to the left of the part at span sp is valid
EarlierPartsValid(t, sp) ==
    \A sq \in Spans(t, "-") : sq[1] < sp[1] => IsValidPart(Piece(t, sq))

AllPartsValid(t) == \A sp \in Spans(t, "-") : IsValidPart(Piece(t, sp))

\* no part of the token is empty
NoEmptyPart(t) == \A sp \in Spans(t, "-") : Piece(t, sp) # <<>>

\* the number of parts the token splits into on '-'
PartCount(t) == Cardinality({i \in 1..Len(t) : t[i] = "-"}) + 1

\* p without its leading and trailing whitespace
TrimOf(p) ==
    LET solid == {i \in 1..Len(p) : ~IsWhitespace(p[i])} IN
    IF solid = {} THEN <<>>
    ELSE SubSeq(p, CHOOSE i \in solid : \A j \in solid : i <= j,
                   CHOOSE i \in solid : \A j \in solid : i >= j)

\* the specification has an empty token or a token with an empty range part
HasEmptyPart(t) ==
    \E sp \in Spans(t, ",") :
        LET token == TrimOf(Piece(t, sp)) IN
        \E sq \in Spans(token, "-") : Piece(token, sq) = <<>>

InvalidDigitError(t) == Err([token |-> t, kind |-> "InvalidDigit"])
ZeroError(t) == Err([token |-> t, kind |-> "Zero"])
WrongPartsError(t, n) == Err([token |-> t, kind |-> "WrongParts", count |-> n])

----------------------------------------------------------------------------
(* C6, as claimed: for every token "N" with N >= 1 parse_range returns     *)
(* (N-1, N-1) and for every token "A-B" with A, B >= 1 it returns          *)
(* (A-1, B-1), the endpoints neither swapped nor normalised.               *)
C6_AsClaimed ==
    op = "parse_range" =>
        /\ IsNumeral(text) /\ NumeralValue(text) >= 1 =>
               parsed = Ok(RangeInclusive(NumeralValue(text) - 1,
                                          NumeralValue(text) - 1))
        /\ \A i \in 1..Len(text) :
               LET a == SubSeq(text, 1, i - 1)
                   b == SubSeq(text, i + 1, Len(text))
               IN text[i] = "-" /\ IsNumeral(a) /\ IsNumeral(b)
                      /\ NumeralValue(a) >= 1 /\ NumeralValue(b) >= 1 =>
                  parsed = Ok(RangeInclusive(NumeralValue(a) - 1,
                                             NumeralValue(b) - 1))

(* C6, amended: the same for every N, A, B from 1 to usize::MAX (a larger  *)
(* number is rejected: it does not fit the index type).                    *)
C6_ParseRangeValue ==
    op = "parse_range" =>
        /\ IsNumeral(text) /\ NumeralValue(text) \in 1..UsizeMax =>
               parsed = Ok(RangeInclusive(NumeralValue(text) - 1,
                                          NumeralValue(text) - 1))
        /\ \A i \in 1..Len(text) :
               LET a == SubSeq(text, 1, i - 1)
                   b == SubSeq(text, i + 1, Len(text))
               IN text[i] = "-" /\ IsNumeral(a) /\ IsNumeral(b)
                      /\ NumeralValue(a) \in 1..UsizeMax
                      /\ NumeralValue(b) \in 1..UsizeMax =>
                  parsed = Ok(RangeInclusive(NumeralValue(a) - 1,
                                             NumeralValue(b) - 1))

\* "10-1" parses to the descending range (9, 0)
C6_Witness ==
    /\ op = "parse_range"
    /\ text = <<"1", "0", "-", "1">>
    /\ parsed = Ok(RangeInclusive(9, 0))

(* C7, as claimed: a token in which any numeric part evaluates to zero is  *)
(* rejected with the zero-index error, whatever the position of that part  *)
(* (stated for the tokens none of whose parts is empty).                   *)
C7_AsClaimed ==
    op = "parse_range" /\ NoEmptyPart(text) =>
        ((\E sp \in Spans(text, "-") : IsZeroPart(Piece(text, sp))) =>
            parsed = ZeroError(text))

(* C7, amended: a token with a numeric part that evaluates to zero is      *)
(* always rejected; the error is the zero-index error when the parts to    *)
(* the left of the zero part are valid (the zero part is the leftmost part *)
(* that fails); and no range is ever made from a part whose value is 0:    *)
(* the parser never panics and every endpoint it returns is a part's value *)
(* minus one, from 0 to usize::MAX - 1.                                    *)
C7_ZeroRejected ==
    /\ op = "parse_range" =>
        /\ (\E sp \in Spans(text, "-") : IsZeroPart(Piece(text, sp))) =>
               parsed.tag = "Err"
        /\ \A sp \in Spans(text, "-") :
               IsZeroPart(Piece(text, sp)) /\ EarlierPartsValid(text, sp) =>
                   parsed = ZeroError(text)
        /\ parsed.tag # "Panic"
        /\ parsed.tag = "Ok" =>
               /\ AllPartsValid(text)
               /\ parsed.val.start \in 0..(UsizeMax - 1)
               /\ parsed.val.end \in 0..(UsizeMax - 1)
    /\ op = "parse_ranges" =>
        /\ parsed.tag # "Panic"
        /\ parsed.tag = "Ok" =>
               \A i \in 1..Len(parsed.val) :
                   /\ parsed.val[i].start \in 0..(UsizeMax - 1)
                   /\ parsed.val[i].end \in 0..(UsizeMax - 1)

\* "10-0": the zero part is the second one
C7_Witness ==
    /\ op = "parse_range"
    /\ text = <<"1", "0", "-", "0">>
    /\ parsed = ZeroError(text)

(* C8, as claimed: a token with a non-numeric part is rejected with the    *)
(* invalid-digit error, which carries the token (stated for the tokens     *)
(* none of whose parts is empty).                                          *)
C8_AsClaimed ==
    op = "parse_range" /\ NoEmptyPart(text) =>
        ((\E sp \in Spans(text, "-") : IsNonNumericPart(Piece(text, sp))) =>
            parsed = InvalidDigitError(text))

(* C8, amended: a token with a non-numeric part is always rejected; the    *)
(* error is the invalid-digit error, carrying the token, when the parts to *)
(* the left of the non-numeric part are valid and the digits before its    *)
(* offending character fit in usize.                                       *)
C8_InvalidDigit ==
    op = "parse_range" =>
        /\ (\E sp \in Spans(text, "-") : IsNonNumericPart(Piece(text, sp))) =>
               parsed.tag = "Err" /\ parsed.val.token = text
        /\ \A sp \in Spans(text, "-") :
               /\ IsNonNumericPart(Piece(text, sp))
               /\ EarlierPartsValid(text, sp)
               /\ DigitsBeforeOffenderFit(Piece(text, sp))
               => parsed = InvalidDigitError(text)

\* "1-a": the error names the token, not the part
C8_Witness ==
    /\ op = "parse_range"
    /\ text = <<"1", "-", "a">>
    /\ parsed = InvalidDigitError(text)

(* C9, as claimed: every token that splits on '-' into a number of parts   *)
(* other than one or two is rejected with the wrong-number-of-parts error  *)
(* naming the token (stated for the tokens none of whose parts is empty).  *)
C9_AsClaimed ==
    op = "parse_range" /\ NoEmptyPart(text) =>
        (PartCount(text) \notin {1, 2} =>
            parsed = WrongPartsError(text, PartCount(text)))

(* C9, amended: every token that splits on '-' into a number of parts      *)
(* other than one or two is rejected; the error is the wrong-number-of-    *)
(* parts error naming the token exactly when every part is a valid         *)
(* non-zero number (otherwise a part's own error is reported).             *)
C9_WrongParts ==
    op = "parse_range" =>
        /\ PartCount(text) \notin {1, 2} =>
               /\ parsed.tag = "Err"
               /\ parsed.val.token = text
               /\ AllPartsValid(text) <=>
                      parsed = WrongPartsError(text, PartCount(text))
        /\ PartCount(text) \in {1, 2} =>
               ~(parsed.tag = "Err" /\ parsed.val.kind = "WrongParts")

\* "1-1-1": three valid parts
C9_Witness ==
    /\ op = "parse_range"
    /\ text = <<"1", "-", "1", "-", "1">>
    /\ parsed = WrongPartsError(text, 3)

(* C10: parse_ranges rejects the empty specification, and every            *)
(* specification with an empty token or an empty range part: none of them  *)
(* yields a range list.                                                    *)
C10_EmptyRejected ==
    op = "parse_ranges" =>
        /\ text = <<>> => parsed = Err([token |-> <<>>, kind |-> "Empty"])
        /\ HasEmptyPart(text) => parsed.tag = "Err"

\* "1,": a valid token followed by an empty one
C10_Witness ==
    /\ op = "parse_ranges"
    /\ text = <<"1", ",">>
    /\ HasEmptyPart(text)
    /\ parsed = Err([token |-> <<>>, kind |-> "Empty"])

----------------------------------------------------------------------------
(* Reference definitions for the claims about parse_ranges.                *)

\* the spans of Spans(t, sep), from left to right
SpanSeq(t, sep) ==
    LET S == Spans(t, sep) IN
    [i \in 1..Cardinality(S) |->
        CHOOSE sp \in S : Cardinality({sq \in S : sq[1] < sp[1]}) = i - 1]

\* the tokens of a specification: its comma-separated pieces, surrounding
\* whitespace left out
TokensOf(t) ==
    LET ps == SpanSeq(t, ",") IN
    [i \in 1..Len(ps) |-> TrimOf(Piece(t, ps[i]))]

\* TOKEN := NUMBER | NUMBER '-' NUMBER, every NUMBER from 1 to usize::MAX
IsValidToken(tok) == PartCount(tok) \in {1, 2} /\ AllPartsValid(tok)

\* the zero-based range a valid token denotes
TokenRange(tok) ==
    LET ps == SpanSeq(tok, "-") IN
    RangeInclusive(NumberValue(Piece(tok, ps[1])) - 1,
                   NumberValue(Piece(tok, ps[Len(ps)])) - 1)

\* a number without its sign and its leading zeros
Canonical(p) ==
    LET u == Unsigned(p)
        k == IF \A i \in 1..Len(u) : u[i] = "0" THEN Len(u)
             ELSE CHOOSE i \in 1..Len(u) :
                      u[i] # "0" /\ \A j \in 1..(i - 1) : u[j] = "0"
    IN SubSeq(u, k, Len(u))

\* token t with the part at span sp replaced by q
ReplacePart(t, sp, q) ==
    SubSeq(t, 1, sp[1] - 1) \o q \o SubSeq(t, sp[2] + 1, Len(t))

\* two parse results agree: both a value, the same one, or both an error
\* of the same kind
SameOutcome(r1, r2) ==
    /\ r1.tag = r2.tag
    /\ r1.tag = "Ok" => r1.val = r2.val
    /\ r1.tag = "Err" => r1.val.kind = r2.val.kind

\* the tokens joined by commas
RECURSIVE JoinTokens(_)
JoinTokens(toks) ==
    IF Len(toks) = 0 THEN <<>>
    ELSE IF Len(toks) = 1 THEN toks[1]
    ELSE toks[1] \o <<",">> \o JoinTokens(Tail(toks))

----------------------------------------------------------------------------
(* C11: parse_ranges fails fast: when a token of the specification is      *)
(* invalid the result is an error, never a partial list, and it is the     *)
(* error of the leftmost failing token, unchanged, whatever valid tokens   *)
(* precede it and whatever invalid tokens follow it.                       *)
C11_FailFast ==
    op = "parse_ranges" =>
        LET toks == TokensOf(text)
            res == [i \in 1..Len(toks) |-> parse_range(toks[i], TRUE)]
        IN /\ (\E i \in 1..Len(toks) : ~IsValidToken(toks[i])) =>
                  parsed.tag = "Err"
           /\ \A i \in 1..Len(toks) :
                  /\ ~IsValidToken(toks[i])
                  /\ \A j \in 1..(i - 1) : IsValidToken(toks[j])
                  => parsed = res[i] /\ parsed.val.token = toks[i]

\* "1,a,0": a valid token, then two invalid ones; the error is that of "a"
C11_Witness ==
    /\ op = "parse_ranges"
    /\ text = <<"1", ",", "a", ",", "0">>
    /\ parsed = InvalidDigitError(<<"a">>)

(* C12: when parse_ranges succeeds the list has exactly one range per      *)
(* comma-separated token (so it is never empty), in the order the tokens   *)
(* were written, nothing deduplicated, merged or sorted.                   *)
C12_OneRangePerToken ==
    op = "parse_ranges" /\ parsed.tag = "Ok" =>
        LET toks == TokensOf(text) IN
        /\ Len(parsed.val) = Cardinality({i \in 1..Len(text) : text[i] = ","}) + 1
        /\ Len(parsed.val) = Len(toks)
        /\ Len(parsed.val) >= 1
        /\ \A i \in 1..Len(toks) :
               IsValidToken(toks[i]) /\ parsed.val[i] = TokenRange(toks[i])

\* "10,1": the ranges stay in the order written, not sorted
C12_Witness ==
    /\ op = "parse_ranges"
    /\ text = <<"1", "0", ",", "1">>
    /\ parsed = Ok(<<RangeInclusive(9, 9), RangeInclusive(0, 0)>>)

\* "1,1": the repeated range is kept
C12_WitnessDuplicate ==
    /\ op = "parse_ranges"
    /\ text = <<"1", ",", "1">>
    /\ parsed = Ok(<<RangeInclusive(0, 0), RangeInclusive(0, 0)>>)

(* C13: a leading '+' and leading zeros on a numeric part are accepted and *)
(* do not change its value, in either position of a token: a token whose   *)
(* parts are numbers '+'? DIGIT+ of value 1..usize::MAX parses to the      *)
(* range of those values, and a token parses like the token with a part    *)
(* stripped of its sign and leading zeros.                                 *)
C13_SignAndZeros ==
    op = "parse_range" =>
        /\ IsValidToken(text) => parsed = Ok(TokenRange(text))
        /\ \A sp \in Spans(text, "-") :
               IsNumber(Piece(text, sp)) =>
                   SameOutcome(parsed,
                       parse_range(ReplacePart(text, sp, Canonical(Piece(text, sp))),
                                   TRUE))

\* "+1-01" parses to (0, 0)
C13_Witness ==
    /\ op = "parse_range"
    /\ text = <<"+", "1", "-", "0", "1">>
    /\ parsed = Ok(RangeInclusive(0, 0))

(* C14: whitespace around a comma-separated token is ignored by            *)
(* parse_ranges (the text parses like the text without it), and whitespace *)
(* inside a token is not: it makes the token, and the text, invalid.       *)
C14_Whitespace ==
    op = "parse_ranges" =>
        LET toks == TokensOf(text) IN
        /\ (\A i \in 1..Len(toks) : IsValidToken(toks[i])) =>
               parsed = Ok([i \in 1..Len(toks) |-> TokenRange(toks[i])])
        /\ parsed = parse_ranges(JoinTokens(toks), TRUE)
        /\ (\E i \in 1..Len(toks) : \E k \in 1..Len(toks[i]) :
                IsWhitespace(toks[i][k])) => parsed.tag = "Err"

\* " 1 ,1": whitespace on both sides of the first token
C14_Witness ==
    /\ op = "parse_ranges"
    /\ text = <<" ", "1", " ", ",", "1">>
    /\ parsed = Ok(<<RangeInclusive(0, 0), RangeInclusive(0, 0)>>)

\* "1 -1": whitespace inside the token
C14_WitnessInside ==
    /\ op = "parse_ranges"
    /\ text = <<"1", " ", "-", "1">>
    /\ parsed = InvalidDigitError(text)

----------------------------------------------------------------------------
(* src/08_cut/src/lib.rs: extract_fields, with the csv crate's reader and  *)
(* writer as extract_fields configures them (no headers, the delimiter,    *)
(* quoting with double quotes, a doubled quote as the escape).             *)

\* Longest line handed to extract_fields.
MaxFieldLineLen == 4

\* the bytes of '\t', '\n', '\r' and '"'
Tab == 9
LineFeed == 10
CarriageReturn == 13
Quote == 34

\* `delimeter as u8`: a char cast to a byte keeps the low eight bits
as_u8(c) == c % 256

\* the reader's record terminator: '\r', '\n' or both
IsTerminator(b) == b \in {LineFeed, CarriageReturn}

\* csv::Reader::records().next() on the bytes of one line: the first record
\* (its fields, as byte strings), or None when the input holds no record.
\* st is the state of the reader's automaton, field the bytes of the field
\* being read and fields the fields already ended.
RECURSIVE csv_read_from(_, _, _, _, _, _)
csv_read_from(bytes, i, st, field, fields, delim) ==
    IF i > Len(bytes)
    THEN IF st = "StartRecord" THEN None
         ELSE Some(Append(fields, field))
    ELSE LET c == bytes[i] IN
         CASE st = "StartRecord" ->
                  IF IsTerminator(c)
                  THEN csv_read_from(bytes, i + 1, "StartRecord", <<>>, fields, delim)
                  ELSE csv_read_from(bytes, i, "StartField", <<>>, fields, delim)
           [] st = "StartField" ->
                  IF c = Quote
                  THEN csv_read_from(bytes, i + 1, "InQuotedField", <<>>, fields, delim)
                  ELSE IF c = delim
                  THEN csv_read_from(bytes, i + 1, "StartField", <<>>,
                                     Append(fields, <<>>), delim)
                  ELSE IF IsTerminator(c)
                  THEN Some(Append(fields, <<>>))
                  ELSE csv_read_from(bytes, i + 1, "InField", <<c>>, fields, delim)
           [] st = "InField" ->
                  IF c = delim
                  THEN csv_read_from(bytes, i + 1, "StartField", <<>>,
                                     Append(fields, field), delim)
                  ELSE IF IsTerminator(c)
                  THEN Some(Append(fields, field))
                  ELSE csv_read_from(bytes, i + 1, "InField", Append(field, c),
                                     fields, delim)
           [] st = "InQuotedField" ->
                  IF c = Quote
                  THEN csv_read_from(bytes, i + 1, "InDoubleEscapedQuote", field,
                                     fields, delim)
                  ELSE csv_read_from(bytes, i + 1, "InQuotedField", Append(field, c),
                                     fields, delim)
           [] st = "InDoubleEscapedQuote" ->
                  IF c = Quote
                  THEN csv_read_from(bytes, i + 1, "InQuotedField",
                                     Append(field, Quote), fields, delim)
                  ELSE IF c = delim
                  THEN csv_read_from(bytes, i + 1, "StartField", <<>>,
                                     Append(fields, field), delim)
                  ELSE IF IsTerminator(c)
                  THEN Some(Append(fields, field))
                  ELSE csv_read_from(bytes, i + 1, "InField", Append(field, c),
                                     fields, delim)

csv_read_record(bytes, delim) ==
    csv_read_from(bytes, 1, "StartRecord", <<>>, <<>>, delim)

\* the writer quotes a field that holds the delimiter, a quote or a record
\* terminator
NeedsQuotes(field, delim) ==
    \E i \in 1..Len(field) : field[i] = delim \/ field[i] = Quote \/ IsTerminator(field[i])

RECURSIVE DoubleQuotes(_)
DoubleQuotes(field) ==
    IF field = <<>> THEN <<>>
    ELSE (IF field[1] = Quote THEN <<Quote, Quote>> ELSE <<field[1]>>)
             \o DoubleQuotes(Tail(field))

csv_write_field(field, delim) ==
    IF NeedsQuotes(field, delim)
    THEN <<Quote>> \o DoubleQuotes(field) \o <<Quote>>
    ELSE field

RECURSIVE csv_join(_, _)
csv_join(fields, delim) ==
    IF fields = <<>> THEN <<>>
    ELSE IF Len(fields) = 1 THEN csv_write_field(fields[1], delim)
    ELSE csv_write_field(fields[1], delim) \o <<delim>> \o csv_join(Tail(fields), delim)

\* csv::Writer::write_record followed by into_inner: the fields joined by
\* the delimiter and the '\n' terminator; a record that wrote no byte (no
\* field, or one empty field) is written as a pair of quotes.
csv_write_record(fields, delim) ==
    LET joined == csv_join(fields, delim) IN
    (IF joined = <<>> THEN <<Quote, Quote>> ELSE joined) \o <<LineFeed>>

\* char::is_whitespace, for the characters below U+0800
White_Space == {9, 10, 11, 12, 13, 32, 133, 160}

\* str::trim on the characters of a String
RECURSIVE String_trim(_)
String_trim(cs) ==
    IF cs = <<>> THEN cs
    ELSE IF cs[1] \in White_Space THEN String_trim(Tail(cs))
    ELSE IF cs[Len(cs)] \in White_Space THEN String_trim(SubSeq(cs, 1, Len(cs) - 1))
    ELSE cs

\* str::from_utf8 succeeds on the bytes (characters below U+0800)
RECURSIVE IsValidUtf8(_)
IsValidUtf8(bytes) ==
    IF bytes = <<>> THEN TRUE
    ELSE IF IsAscii(bytes[1]) THEN IsValidUtf8(Tail(bytes))
    ELSE /\ IsLead2(bytes[1])
         /\ Len(bytes) >= 2
         /\ IsCont(bytes[2])
         /\ IsValidUtf8(SubSeq(bytes, 3, Len(bytes)))

\* extract_fields: the first record of the line, the selected fields, the
\* record written back and trimmed. expect() panics when the reader finds
\* no record. The reader gives a StringRecord, so a record with a field
\* that is not UTF-8 is an error that `?` returns; this happens when the
\* delimiter byte cuts a character of the line in two. String::from_utf8
\* fails when the written record is not UTF-8, which happens when the
\* delimiter byte, not a character by itself, is written between fields.
extract_fields(l, delim, rs) ==
    LET rec == csv_read_record(l, as_u8(delim)) IN
    IF rec = None THEN Panicked
    ELSE IF \E i \in 1..Len(Unwrap(rec)) : ~IsValidUtf8(Unwrap(rec)[i])
    THEN Err("Utf8Error")
    ELSE LET fields == extract_fields_internal(Unwrap(rec), rs)
             written == csv_write_record(fields, as_u8(delim))
         IN IF IsValidUtf8(written)
            THEN Ok(String_trim(str_chars(written)))
            ELSE Err("FromUtf8Error")

\* The lines, delimiters (tab, comma) and range lists extract_fields is
\* applied to.
\* The bytes of the lines: tab, space, quote, comma and 'a'.
FieldBytes == {Tab, 32, Quote, 44, 97}
FieldLines == UNION {[1..n -> FieldBytes] : n \in 0..MaxFieldLineLen}
Delimiters == {Tab, 44}
FieldRangeLists ==
    {rs \in ExtractRangeLists : Len(rs) <= 1}
        \cup {<<r, r>> : r \in ExtractRangeSpecs}

InitFields ==
    /\ ranges \in FieldRangeLists
    /\ IdleIter
    /\ IdleExtract
    /\ IdleParse
    /\ flags = <<>>
    /\ mode = "Fields"
    /\ delimeter \in Delimiters
    /\ IdleRun

ExtractFields ==
    /\ op = "none"
    /\ \E l \in FieldLines :
         /\ line' = l
         /\ extracted' = extract_fields(l, delimeter, ranges)
    /\ op' = "fields"
    /\ UNCHANGED <<iterVars, record, parseVars, configVars, runVars>>

NextFields == ExtractFields

SpecFields == InitFields /\ [][NextFields]_vars

----------------------------------------------------------------------------
(* Reference definitions for the claims about extract_fields.              *)

\* the fields of the line that the range list selects
SelectedFields ==
    FilterMapGet(ExpandAll(ranges), Unwrap(csv_read_record(line, delimeter)))

\* the written record without the record terminator at its end
StripTerminator(bytes) ==
    IF bytes # <<>> /\ bytes[Len(bytes)] = LineFeed
    THEN SubSeq(bytes, 1, Len(bytes) - 1)
    ELSE bytes

(* C15: extraction of a line either returns an output string or returns an *)
(* error value; Field-mode extraction of any line, the empty line          *)
(* included, never panics.                                                 *)
C15_NeverPanics ==
    op = "fields" => extracted.tag \in {"Ok", "Err"}

(* C16: the string extract_fields returns is the serialized record of the  *)
(* selected fields with only the trailing record terminator removed:       *)
(* leading and trailing whitespace of the record, an empty last field      *)
(* behind a tab delimiter included, is still in the output.                *)
C16_OnlyTerminatorTrimmed ==
    op = "fields" /\ extracted.tag = "Ok" =>
        extracted.val =
            str_chars(StripTerminator(csv_write_record(SelectedFields, delimeter)))

(* C17: field extraction round-trips through the quoting discipline: when  *)
(* the range list selects at least one field of the line, splitting the    *)
(* output with the same delimiter gives exactly the selected fields.       *)
C17_RoundTrip ==
    op = "fields" /\ extracted.tag = "Ok" /\ SelectedFields # <<>> =>
        csv_read_record(Utf8Encode(extracted.val), delimeter) = Some(SelectedFields)

\* the round trip holds whenever trimming removed nothing from the record
C17_RoundTripUntrimmed ==
    /\ op = "fields"
    /\ extracted.tag = "Ok"
    /\ SelectedFields # <<>>
    /\ extracted.val =
           str_chars(StripTerminator(csv_write_record(SelectedFields, delimeter)))
    => csv_read_record(Utf8Encode(extracted.val), delimeter) = Some(SelectedFields)

----------------------------------------------------------------------------
(* src/08_cut/src/main.rs and lib.rs: main, get_args, run, process_file.   *)

\* Paths on the command line.
MaxFiles == 2
\* Lines read during one run, over all files.
MaxLinesRead == 3
\* Lines that fail to be read during one run.
MaxReadErrors == 1

\* The range texts given to --bytes / --chars / --fields: "1", "2-1",
\* "1,1" are valid, "0", "1-" and "a,1" are not.
RunTexts ==
    { <<"1">>, <<"2", "-", "1">>, <<"1", ",", "1">>,
      <<"0">>, <<"1", "-">>, <<"a", ",", "1">> }

\* The lines of the files: "", "a\tb" and "áb".
RunLines == { <<>>, <<97, Tab, 98>>, <<195, 161, 98>> }

Modes == {"Bytes", "Chars", "Fields"}

\* A slip: Byte mode uses String::from_utf8 and returns its error when the
\* selected bytes are not UTF-8.
extract_line_StrictUtf8(m, l, delim, rs) ==
    CASE m = "Bytes" ->
             IF IsValidUtf8(FilterMapGet(ranges_iter(rs), l))
             THEN Ok(extract_bytes(l, rs))
             ELSE Err("FromUtf8Error")
      [] m = "Chars" -> Ok(extract_chars(l, rs))
      [] m = "Fields" -> extract_fields(l, delim, rs)

\* process_file: the match on config.extracted. Byte and Char mode give a
\* String, Field mode a Result whose error `?` returns.
extract_line(m, l, delim, rs) ==
    CASE m = "Bytes" -> Ok(extract_bytes(l, rs))
      [] m = "Chars" -> Ok(extract_chars(l, rs))
      [] m = "Fields" -> extract_fields(l, delim, rs)

\* the state a RangeIter is left in when it has returned None
RangeIter_exhausted(rs) == [ext |-> Len(rs), int |-> None]

\* The options that select a mode, and the variant each one makes.
Flags == {"bytes", "chars", "fields"}
Variant(f) ==
    CASE f = "bytes" -> "Bytes"
      [] f = "chars" -> "Chars"
      [] f = "fields" -> "Fields"

\* The command lines: any of the three options, each with a range text.
FlagSets == UNION {[S -> RunTexts] : S \in SUBSET Flags}

\* The delimiters of a run: the default tab, and 'Ã' (U+00C3), whose byte
\* after `as u8` is the first byte of "á".
RunDelimiters == {Tab, 195}

\* The log of eprintln! keeps at most MaxReadErrors messages about lines
\* that could not be read.
ReadErrorsLogged ==
    Cardinality({i \in 1..Len(stderr) : stderr[i] = "Can't read line"})

InitRun ==
    /\ flags \in FlagSets
    /\ text = <<>>
    /\ parsed = NotParsed
    /\ ranges = <<>>
    /\ IdleIter
    /\ IdleExtract
    /\ mode = "none"
    /\ delimeter \in RunDelimiters
    /\ pc = "get_args"
    /\ files \in 1..MaxFiles
    /\ opened = 0
    /\ reader = "none"
    /\ lines = <<>>
    /\ iters = <<>>
    /\ stdout = <<>>
    /\ stderr = <<>>

\* A slip: an invalid range text is reported but the run goes on, with an
\* empty range list.
GetArgs_Lenient ==
    /\ pc = "get_args"
    /\ \E overflow_checks \in BOOLEAN :
         LET supplied == DOMAIN flags
             result(f) == parse_ranges(flags[f], overflow_checks)
         IN
         IF supplied = {}
         THEN /\ pc' = "exit_err"
              /\ stderr' = Append(stderr, "Please provide either")
              /\ UNCHANGED <<text, parsed, ranges, mode>>
         ELSE \E f \in supplied :
                /\ text' = flags[f]
                /\ parsed' = result(f)
                /\ ranges' = IF result(f).tag = "Ok" THEN result(f).val ELSE <<>>
                /\ IF Cardinality(supplied) >= 2
                   THEN /\ pc' = "exit_err"
                        /\ stderr' = Append(stderr, "cannot be used with")
                        /\ mode' = mode
                   ELSE /\ pc' = "run"
                        /\ stderr' = IF result(f).tag = "Ok" THEN stderr
                                     ELSE Append(stderr, "invalid value")
                        /\ mode' = Variant(f)
    /\ UNCHANGED <<index, yielded, nones, extractVars, flags, delimeter,
                   files, opened, reader, lines, iters, stdout>>

\* A slip: of several mode options the one clap saw last is used.
GetArgs_LastWins ==
    /\ pc = "get_args"
    /\ \E overflow_checks \in BOOLEAN :
         LET supplied == DOMAIN flags
             result(f) == parse_ranges(flags[f], overflow_checks)
             bad == {f \in supplied : result(f).tag # "Ok"}
         IN
         IF bad # {}
         THEN \E f \in bad :
                /\ text' = flags[f]
                /\ parsed' = result(f)
                /\ pc' = IF result(f).tag = "Err" THEN "exit_err" ELSE "panic"
                /\ stderr' = Append(stderr, "invalid value")
                /\ UNCHANGED <<ranges, mode>>
         ELSE IF supplied = {}
         THEN /\ pc' = "exit_err"
              /\ stderr' = Append(stderr, "Please provide either")
              /\ UNCHANGED <<text, parsed, ranges, mode>>
         ELSE \E f \in supplied :
                /\ text' = flags[f]
                /\ parsed' = result(f)
                /\ ranges' = result(f).val
                /\ mode' = Variant(f)
                /\ pc' = "run"
                /\ stderr' = stderr
    /\ UNCHANGED <<index, yielded, nones, extractVars, flags, delimeter,
                   files, opened, reader, lines, iters, stdout>>

\* get_args. Inside get_matches clap applies parse_ranges to the text of
\* every supplied range option (an error is printed and the process exits
\* there), then rejects options that conflict; get_args then counts the
\* supplied options, bails unless there is exactly one, and makes the
\* Config from that option's variant and its parsed list.
GetArgs ==
    /\ pc = "get_args"
    /\ \E overflow_checks \in BOOLEAN :
         LET supplied == DOMAIN flags
             result(f) == parse_ranges(flags[f], overflow_checks)
             bad == {f \in supplied : result(f).tag # "Ok"}
         IN
         IF bad # {}
         THEN \E f \in bad :
                /\ text' = flags[f]
                /\ parsed' = result(f)
                /\ pc' = IF result(f).tag = "Err" THEN "exit_err" ELSE "panic"
                /\ stderr' = Append(stderr, "invalid value")
                /\ UNCHANGED <<ranges, mode>>
         ELSE IF Cardinality(supplied) >= 2
         THEN \E f \in supplied :
                /\ text' = flags[f]
                /\ parsed' = result(f)
                /\ pc' = "exit_err"
                /\ stderr' = Append(stderr, "cannot be used with")
                /\ UNCHANGED <<ranges, mode>>
         ELSE IF Cardinality(supplied) # 1
         THEN /\ pc' = "exit_err"
              /\ stderr' = Append(stderr, "Please provide either")
              /\ UNCHANGED <<text, parsed, ranges, mode>>
         ELSE \E f \in supplied :
                /\ text' = flags[f]
                /\ parsed' = result(f)
                /\ ranges' = result(f).val
                /\ mode' = Variant(f)
                /\ pc' = "run"
                /\ stderr' = stderr
    /\ UNCHANGED <<index, yielded, nones, extractVars, flags, delimeter,
                   files, opened, reader, lines, iters, stdout>>

\* run: open(path) succeeds and process_file starts on the reader. The
\* reader is good, or one whose every read fails (the path of a directory
\* opens and then fails at each read).
OpenFile ==
    /\ pc = "run"
    /\ files > 0
    /\ files' = files - 1
    /\ opened' = opened + 1
    /\ reader' \in {"good", "failing"}
    /\ pc' = "process_file"
    /\ UNCHANGED <<iterVars, extractVars, parseVars, configVars,
                   lines, iters, stdout, stderr>>

\* run: open(path) fails; the error is printed and the loop goes on
OpenFails ==
    /\ pc = "run"
    /\ files > 0
    /\ files' = files - 1
    /\ stderr' = Append(stderr, "Can't open file")
    /\ UNCHANGED <<iterVars, extractVars, parseVars, configVars,
                   pc, opened, reader, lines, iters, stdout>>

\* run: the list of files is done, Ok(()) is returned and main ends
RunReturns ==
    /\ pc = "run"
    /\ files = 0
    /\ pc' = "exit_ok"
    /\ UNCHANGED <<iterVars, extractVars, parseVars, configVars,
                   files, opened, reader, lines, iters, stdout, stderr>>

\* A slip: one RangeIter is made for the file and used for all its lines;
\* after the first line it is exhausted and yields nothing.
ReadLine_ReusedIter ==
    /\ pc = "process_file"
    /\ reader = "good"
    /\ Len(lines) < MaxLinesRead
    /\ \E l \in RunLines :
         LET fresh == lines = <<>>
             r == extract_line(mode, l, delimeter, IF fresh THEN ranges ELSE <<>>)
         IN
         /\ line' = l
         /\ lines' = Append(lines, l)
         /\ iters' = Append(iters, IF fresh THEN RangeIter_new
                                   ELSE RangeIter_exhausted(ranges))
         /\ extracted' = r
         /\ stdout' = IF r.tag = "Ok" THEN Append(stdout, r.val) ELSE stdout
         /\ stderr' = IF r.tag = "Err" THEN Append(stderr, "error") ELSE stderr
         /\ pc' = CASE r.tag = "Ok" -> pc
                    [] r.tag = "Err" -> "exit_err"
                    [] OTHER -> "panic"
    /\ UNCHANGED <<iterVars, record, op, parseVars, configVars, files, opened,
                   reader>>

\* A slip: the output buffer is not cleared between lines, so a line's
\* output starts with the output of the line before it.
ReadLine_ReusedBuffer ==
    /\ pc = "process_file"
    /\ reader = "good"
    /\ Len(lines) < MaxLinesRead
    /\ \E l \in RunLines :
         LET r == extract_line(mode, l, delimeter, ranges)
             before == IF stdout = <<>> THEN <<>> ELSE stdout[Len(stdout)]
         IN
         /\ line' = l
         /\ lines' = Append(lines, l)
         /\ iters' = Append(iters, RangeIter_new)
         /\ extracted' = r
         /\ stdout' = IF r.tag = "Ok" THEN Append(stdout, before \o r.val) ELSE stdout
         /\ stderr' = IF r.tag = "Err" THEN Append(stderr, "error") ELSE stderr
         /\ pc' = CASE r.tag = "Ok" -> pc
                    [] r.tag = "Err" -> "exit_err"
                    [] OTHER -> "panic"
    /\ UNCHANGED <<iterVars, record, op, parseVars, configVars, files, opened,
                   reader>>

\* A slip: an error of extract_fields is reported like a line that cannot
\* be read, and the loop goes on with the next line.
ReadLine_SkipBadLine ==
    /\ pc = "process_file"
    /\ reader = "good"
    /\ Len(lines) < MaxLinesRead
    /\ \E l \in RunLines :
         LET r == extract_line(mode, l, delimeter, ranges) IN
         /\ line' = l
         /\ lines' = Append(lines, l)
         /\ iters' = Append(iters, RangeIter_new)
         /\ extracted' = r
         /\ stdout' = IF r.tag = "Ok" THEN Append(stdout, r.val) ELSE stdout
         /\ stderr' = IF r.tag = "Err" THEN Append(stderr, "error") ELSE stderr
         /\ pc' = CASE r.tag = "Ok" -> pc
                    [] r.tag = "Err" -> pc
                    [] OTHER -> "panic"
    /\ UNCHANGED <<iterVars, record, op, parseVars, configVars, files, opened,
                   reader>>

\* process_file: a line is read and extracted (each extractor makes its
\* iterator with RangeIter::new) and the result printed; an error of
\* extract_fields is returned through run to main, which prints it.
ReadLine ==
    /\ pc = "process_file"
    /\ reader = "good"
    /\ Len(lines) < MaxLinesRead
    /\ \E l \in RunLines :
         LET r == extract_line(mode, l, delimeter, ranges) IN
         /\ line' = l
         /\ lines' = Append(lines, l)
         /\ iters' = Append(iters, RangeIter_new)
         /\ extracted' = r
         /\ stdout' = IF r.tag = "Ok" THEN Append(stdout, r.val) ELSE stdout
         /\ stderr' = IF r.tag = "Err" THEN Append(stderr, "error") ELSE stderr
         /\ pc' = CASE r.tag = "Ok" -> pc
                    [] r.tag = "Err" -> "exit_err"
                    [] OTHER -> "panic"
    /\ UNCHANGED <<iterVars, record, op, parseVars, configVars, files, opened,
                   reader>>

\* process_file: reader.lines() gives an Err; the error is printed and the
\* loop goes on with the next item. A good reader has given a line that is
\* not UTF-8 and goes on behind it; a failing reader gives Err again, call
\* after call.
ReadError ==
    /\ pc = "process_file"
    /\ reader = "failing" \/ ReadErrorsLogged < MaxReadErrors
    /\ stderr' = IF ReadErrorsLogged < MaxReadErrors
                 THEN Append(stderr, "Can't read line")
                 ELSE stderr
    /\ UNCHANGED <<iterVars, extractVars, parseVars, configVars,
                   pc, files, opened, reader, lines, iters, stdout>>

\* process_file: the reader has no more lines, Ok(()) goes back to run
EndOfFile ==
    /\ pc = "process_file"
    /\ reader = "good"
    /\ pc' = "run"
    /\ reader' = "none"
    /\ UNCHANGED <<iterVars, extractVars, parseVars, configVars,
                   files, opened, lines, iters, stdout, stderr>>

NextRun ==
    \/ GetArgs
    \/ OpenFile
    \/ OpenFails
    \/ RunReturns
    \/ ReadLine
    \/ ReadError
    \/ EndOfFile

SpecRun == InitRun /\ [][NextRun]_vars

----------------------------------------------------------------------------
C20_ParseBeforeInput ==
    /\ pc = "get_args" => opened = 0 /\ lines = <<>> /\ stdout = <<>>
    /\ parsed.tag = "Err" =>
           /\ pc = "exit_err"
           /\ opened = 0
           /\ lines = <<>>
           /\ stdout = <<>>
    /\ (opened > 0 \/ lines # <<>> \/ stdout # <<>>) => parsed.tag = "Ok"

\* the text "a,1" is rejected with files still to be opened
C20_Witness ==
    /\ text = <<"a", ",", "1">>
    /\ parsed = InvalidDigitError(<<"a">>)
    /\ pc = "exit_err"
    /\ files > 0
    /\ opened = 0

----------------------------------------------------------------------------
(* Reference definitions for the claims about the steps of RangeIter.      *)

\* the range the cursor ext points at
CurrentRange == ranges[index.ext + 1]

\* one step from v toward the end of range r
Toward(r, v) == IF r.start <= r.end THEN v + 1 ELSE v - 1

\* v lies in the closed interval between the endpoints of r
Between(r, v) ==
    IF r.start <= r.end THEN r.start <= v /\ v <= r.end
    ELSE r.end <= v /\ v <= r.start

(* C23: the step rule of (ext, int). A call that finds int = None yields   *)
(* the start of ranges[ext], any other call yields the current int; the    *)
(* call then moves int by exactly one toward end and leaves ext, or, when  *)
(* the yielded value is end, sets ext to ext + 1 and int to None. ext      *)
(* never decreases and never skips a range.                                *)
C23_StepRule ==
    [][ /\ index'.ext \in {index.ext, index.ext + 1}
        /\ index.ext < Len(ranges) =>
               LET r == CurrentRange
                   v == IF index.int = None THEN r.start ELSE Unwrap(index.int)
               IN /\ yielded' = Append(yielded, v)
                  /\ IF v = r.end
                     THEN index' = [ext |-> index.ext + 1, int |-> None]
                     ELSE index' = [ext |-> index.ext, int |-> Some(Toward(r, v))]
      ]_vars

\* a descending range entered and left step by step, the next range entered
C23_Witness ==
    /\ ranges = <<RangeInclusive(2, 0), RangeInclusive(1, 2)>>
    /\ yielded = <<2, 1, 0, 1>>
    /\ index = [ext |-> 1, int |-> Some(2)]

----------------------------------------------------------------------------
(* SpecLive: the iterator driven by a consumer that keeps calling next()   *)
(* (collect, filter_map) until it has seen None.                           *)

SpecLive == Init /\ [][Next]_vars /\ WF_vars(CallNext)

RECURSIVE TotalSize(_)
TotalSize(rs) == IF rs = <<>> THEN 0 ELSE RangeSize(Head(rs)) + TotalSize(Tail(rs))

(* C24: the position sequence is always finite: for every range list the   *)
(* calls of next reach None, after exactly the sum over the ranges of      *)
(* |start - end| + 1 yielded positions, and then ext has moved past the    *)
(* last range; the empty range list yields no position at all.             *)
C24_Finite ==
    /\ <>Exhausted
    /\ [](/\ Len(yielded) <= TotalSize(ranges)
          /\ Exhausted => Len(yielded) = TotalSize(ranges) /\ index.ext = Len(ranges)
          /\ Len(yielded) = TotalSize(ranges) =>
                 RangeIter_next(ranges, index).item = None
          /\ ranges = <<>> => yielded = <<>>)

\* two ranges of 3 and 2 positions walked, then None
C24_Witness ==
    /\ ranges = <<RangeInclusive(0, 2), RangeInclusive(2, 1)>>
    /\ Len(yielded) = 5
    /\ nones = 1
    /\ index.ext = 2

\* the empty range list: None at the first call
C24_WitnessEmpty ==
    /\ ranges = <<>>
    /\ nones = 1
    /\ yielded = <<>>

(* C25: the iterator never wraps around the index type: whenever int is    *)
(* Some(v), v lies in the closed interval between start and end of         *)
(* ranges[ext]; when v is the largest index value in an ascending range,   *)
(* or 0 in a descending one, next yields v once and advances to the next   *)
(* range (ext + 1, int = None).                                            *)
C25_NoWrap ==
    /\ [](/\ index.int # None =>
                 /\ index.ext < Len(ranges)
                 /\ Between(CurrentRange, Unwrap(index.int))
          /\ \A i \in 1..Len(yielded) : yielded[i] \in 0..UsizeMax)
    /\ [][ index.ext < Len(ranges) =>
               LET r == CurrentRange
                   v == IF index.int = None THEN r.start ELSE Unwrap(index.int)
               IN (r.start <= r.end /\ v = UsizeMax) \/ (r.start > r.end /\ v = 0) =>
                      /\ yielded' = Append(yielded, v)
                      /\ index' = [ext |-> index.ext + 1, int |-> None]
      ]_vars

\* an ascending range up to the largest index value, then a descending one
\* down to 0, both left at their last value
C25_Witness ==
    /\ ranges = <<RangeInclusive(UsizeMax, UsizeMax), RangeInclusive(1, 0)>>
    /\ yielded = <<UsizeMax, 1, 0>>
    /\ index = [ext |-> 2, int |-> None]

----------------------------------------------------------------------------
(* src/08_cut/src/ranges.rs: the eager ranges_iter the lazy one replaced.  *)

\* Iterator::rev
Reverse(s) == [i \in 1..Len(s) |-> s[Len(s) + 1 - i]]

\* lo..=hi, in increasing order
Interval(lo, hi) == [i \in 1..(hi - lo + 1) |-> lo + (i - 1)]

\* the Vec the eager version builds: for each range in list order,
\* start..=end when start <= end, (end..=start).rev() otherwise
RECURSIVE ranges_iter_eager(_)
ranges_iter_eager(rs) ==
    IF rs = <<>> THEN <<>>
    ELSE LET range == Head(rs)
             indexes == IF range.start <= range.end
                        THEN Interval(range.start, range.end)
                        ELSE Reverse(Interval(range.end, range.start))
         IN indexes \o ranges_iter_eager(Tail(rs))

(* C26: the lazy iterator is equivalent to the eager expansion it          *)
(* replaced: for every range list the positions pulled from ranges_iter    *)
(* are the vector the eager version builds, and the positions pulled call  *)
(* by call are always a prefix of it, all of it once None is returned.     *)
C26_LazyEqualsEager ==
    LET eager == ranges_iter_eager(ranges) IN
    /\ ranges_iter(ranges) = eager
    /\ IsPrefix(yielded, eager)
    /\ Exhausted => yielded = eager

\* a descending range and a one-element range pulled to the end
C26_Witness ==
    /\ ranges = <<RangeInclusive(1, 0), RangeInclusive(1, 1)>>
    /\ Exhausted
    /\ yielded = <<1, 0, 1>>
    /\ ranges_iter_eager(ranges) = <<1, 0, 1>>

(* C29: once the iterator is exhausted it stays exhausted: ext is always   *)
(* between 0 and the length of the range list, and when ext equals the     *)
(* length every further call of next returns None and leaves (ext, int)    *)
(* unchanged, so no position is yielded after the first None.              *)
C29_StaysExhausted ==
    /\ [](/\ index.ext \in 0..Len(ranges)
          /\ index.ext = Len(ranges) =>
                 RangeIter_next(ranges, index) = [item |-> None, index |-> index]
          /\ Exhausted => index.ext = Len(ranges))
    /\ [][ index.ext = Len(ranges) \/ Exhausted =>
               /\ index' = index
               /\ yielded' = yielded
               /\ nones' = nones + 1
      ]_vars

\* next has returned None twice in a row on a walked list
C29_Witness ==
    /\ ranges = <<RangeInclusive(0, 1)>>
    /\ yielded = <<0, 1>>
    /\ nones = 2
    /\ index = [ext |-> 1, int |-> None]

----------------------------------------------------------------------------
(* Reference definitions for the claim about the errors of parse_range.    *)

\* why an invalid part is rejected
PartErrorKind(p) ==
    IF p = <<>> THEN "Empty"
    ELSE IF IsNumber(p)
         THEN IF NumberValue(p) = 0 THEN "Zero" ELSE "PosOverflow"
         ELSE IF DigitsBeforeOffenderFit(p) THEN "InvalidDigit" ELSE "PosOverflow"

\* the span of the leftmost invalid part of token t
LeftmostInvalid(t) ==
    CHOOSE sp \in Spans(t, "-") :
        ~IsValidPart(Piece(t, sp)) /\ EarlierPartsValid(t, sp)

(* C27: error precedence inside one token: every '-'-separated part is     *)
(* parsed before the number of parts is looked at. A token with an invalid *)
(* part reports the error of its leftmost invalid part, however many parts *)
(* it has; a token of three or more parts reports the wrong-number-of-     *)
(* parts error exactly when all its parts are valid non-zero integers.     *)
C27_ErrorPrecedence ==
    op = "parse_range" =>
        /\ ~AllPartsValid(text) =>
               parsed = Err([token |-> text,
                             kind |-> PartErrorKind(Piece(text, LeftmostInvalid(text)))])
        /\ PartCount(text) >= 3 =>
               (AllPartsValid(text) <=> parsed = WrongPartsError(text, PartCount(text)))

\* "1-1-a": three parts, the last one invalid
C27_Witness ==
    /\ op = "parse_range"
    /\ text = <<"1", "-", "1", "-", "a">>
    /\ parsed = InvalidDigitError(text)

----------------------------------------------------------------------------
(* C21: exactly one extraction mode is active per run: get_args returns a  *)
(* Config only when exactly one of --bytes, --chars, --fields was supplied *)
(* (none, or more than one, is an error), and the Config's ExtractedRanges *)
(* is the variant of the supplied option with that option's parsed list.   *)
C21_OneMode ==
    pc # "get_args" =>
        LET supplied == DOMAIN flags IN
        /\ Cardinality(supplied) # 1 =>
               /\ pc = "exit_err"
               /\ mode = "none"
               /\ opened = 0
        /\ mode # "none" =>
               /\ mode \in Modes
               /\ \E f \in supplied :
                      /\ supplied = {f}
                      /\ mode = Variant(f)
                      /\ LET toks == TokensOf(flags[f]) IN
                         /\ \A i \in 1..Len(toks) : IsValidToken(toks[i])
                         /\ ranges = [i \in 1..Len(toks) |-> TokenRange(toks[i])]
        /\ pc \in {"run", "process_file", "exit_ok", "panic"} => mode # "none"

\* --chars 2-1 alone: a Config with Chars([1..=0])
C21_Witness ==
    /\ DOMAIN flags = {"chars"}
    /\ flags["chars"] = <<"2", "-", "1">>
    /\ mode = "Chars"
    /\ ranges = <<RangeInclusive(1, 0)>>
    /\ pc = "run"

\* --bytes 1 --fields 1,1: rejected
C21_WitnessConflict ==
    /\ DOMAIN flags = {"bytes", "fields"}
    /\ flags["bytes"] = <<"1">>
    /\ flags["fields"] = <<"1", ",", "1">>
    /\ pc = "exit_err"
    /\ mode = "none"

\* no range option at all: rejected
C21_WitnessNone ==
    /\ DOMAIN flags = {}
    /\ pc = "exit_err"
    /\ mode = "none"

(* C22: Byte mode and Char mode never fail: for every line and every range *)
(* list extract_bytes and extract_chars return a string; an extraction     *)
(* error or a panic only comes out of Field mode, so in Bytes or Chars     *)
(* mode process_file never returns an extraction error and every line      *)
(* read is printed.                                                        *)
C22_BytesCharsNeverFail ==
    /\ mode \in {"Bytes", "Chars"} =>
           /\ pc \notin {"exit_err", "panic"}
           /\ lines # <<>> => extracted.tag = "Ok"
           /\ Len(stdout) = Len(lines)
           /\ \A i \in 1..Len(stderr) : stderr[i] # "error"
    /\ lines # <<>> /\ extracted.tag # "Ok" => mode = "Fields"

\* Byte mode on "áb" with the range 1: one byte of a two-byte character
\* is selected, and the line is still printed
C22_Witness ==
    /\ mode = "Bytes"
    /\ ranges = <<RangeInclusive(0, 0)>>
    /\ line = <<195, 161, 98>>
    /\ extracted = Ok(<<ReplacementChar>>)
    /\ stdout = <<<<ReplacementChar>>>>

(* C28: when extract_fields returns an error for a line in Field mode,     *)
(* nothing is printed for that line and run returns the error at once: no  *)
(* later line and no later file is processed or printed, and the output    *)
(* printed for the earlier lines stays.                                    *)
C28_FieldErrorStopsRun ==
    /\ [](lines # <<>> /\ extracted.tag = "Err" =>
              /\ mode = "Fields"
              /\ pc = "exit_err"
              /\ line = lines[Len(lines)]
              /\ Len(stdout) = Len(lines) - 1
              /\ \A i \in 1..Len(stdout) :
                     Ok(stdout[i]) = extract_line(mode, lines[i], delimeter, ranges)
              /\ stderr # <<>> /\ stderr[Len(stderr)] = "error")
    /\ [][pc # "exit_err"]_vars

\* --fields 1 --delimeter Ã on two files: "a\tb" is printed, "áb" is cut in
\* two by the delimiter byte and the run ends with the second file unopened
C28_Witness ==
    /\ mode = "Fields"
    /\ delimeter = 195
    /\ lines = << <<97, Tab, 98>>, <<195, 161, 98>> >>
    /\ extracted = Err("Utf8Error")
    /\ stdout = << <<97, Tab, 98>> >>
    /\ pc = "exit_err"
    /\ files = 1
    /\ opened = 1

----------------------------------------------------------------------------
(* SpecRunLive: the run with the program making its steps: the loops of    *)
(* run and process_file do not stop while they have a step to take.        *)

SpecRunLive ==
    /\ SpecRun
    /\ WF_vars(OpenFile \/ OpenFails)  \* run's loop takes the next file
    /\ WF_vars(RunReturns)            \* run returns after the last file
    /\ WF_vars(EndOfFile)             \* a reader that reads comes to its end

\* the files that could not be opened, as reported
OpenFailures ==
    Cardinality({i \in 1..Len(stderr) : stderr[i] = "Can't open file"})

\* What holds of every state of a run: a run that returns Ok has gone
\* through all its files, and Byte and Char mode print one line per line
\* read, in order, and end neither in an error nor in a panic.
C30_StatePart ==
    /\ pc = "exit_ok" => files = 0
    /\ mode \in {"Bytes", "Chars"} =>
           /\ pc \notin {"exit_err", "panic"}
           /\ Len(stdout) = Len(lines)
           /\ \A i \in 1..Len(lines) :
                  Ok(stdout[i]) = extract_line(mode, lines[i], delimeter, ranges)

\* Every file of the list is opened or reported, one by one.
C30_StepPart ==
    [][ /\ files' + opened' + OpenFailures' = files + opened + OpenFailures
        /\ files' \in {files, files - 1}
      ]_vars

(* C30: input failures do not stop a run: a file that cannot be opened is  *)
(* reported and skipped and the later files are still processed, in list   *)
(* order; a line that cannot be read is reported and skipped and the loop  *)
(* over the lines goes on to its end; in Bytes and Chars mode run prints   *)
(* one output line per line read, in input order, and returns Ok.          *)
C30_InputFailuresDoNotStop ==
    /\ []C30_StatePart
    /\ C30_StepPart
    /\ (pc = "process_file") ~> (pc # "process_file")
    /\ (pc = "run" /\ mode \in {"Bytes", "Chars"}) ~> (pc = "exit_ok")

\* the part of C30 that needs no reader to reach its end
C30_SafetyPart == []C30_StatePart /\ C30_StepPart

\* with readers that reach their end the run goes through every file
C30_WhenReadersEnd ==
    [](reader # "failing") =>
        /\ (pc = "process_file") ~> (pc # "process_file")
        /\ (pc = "run" /\ mode \in {"Bytes", "Chars"}) ~> (pc = "exit_ok")

====
